---- MODULE Spec2Model ----
(***************************************************************************)
(* Model of the COI tracker: the ingestion webhook of main.py (download,  *)
(* model gateway with ordered fallback, date validation, record update,   *)
(* error-marking fallback).                                               *)
(*                                                                         *)
(* Three specifications share the definitions below:                      *)
(*   SpecResolver : the date validation block applied to bounded inputs   *)
(*   SpecGateway  : one invocation of extract_data_with_gemini_raw        *)
(*   Spec         : process_coi_webhook invocations against the table     *)
(***************************************************************************)
EXTENDS Integers, Sequences, FiniteSets, TLC

VARIABLES
    rs_pc, rs_exp, rs_today, rs_out,                \* date validation block
    gw_pc, gw_i, gw_last_error, gw_inflight, gw_log, gw_ret,   \* gateway
    policies,      \* the policies table: id -> row
    clock,         \* days elapsed since FirstDay
    pc,            \* per invocation of process_coi_webhook: where it is
    payload,       \* payload.record of the invocation
    dl_count,      \* downloads the invocation made
    nreq,          \* extraction requests the invocation made
    extracted,     \* extracted_data
    now,           \* datetime.now().date() as read by the invocation
    update_data,   \* update_data
    exc,           \* the exception caught at line 185
    outcome,       \* what the handler returned
    writes,        \* the updates the invocation issued, in order
    ng_pc,         \* where run_nag_cycle is
    ng_key,        \* RESEND_API_KEY is set
    ng_clock,      \* days elapsed since NagFirstDay
    ng_days_out,   \* days_out of the call of get_expiring_policies
    ng_table,      \* the policies table, in the order the query reads it
    ng_target,     \* target_date
    ng_today,      \* today
    ng_failed,     \* the query raised
    ng_scan,       \* expiring_policies
    ng_i,          \* position of the for loop in expiring_policies
    ng_sends,      \* the mails of the cycle, in order
    ng_run,        \* cycles started
    ng_nagged      \* mails per policy over all cycles

rs_vars == <<rs_pc, rs_exp, rs_today, rs_out>>
gw_vars == <<gw_pc, gw_i, gw_last_error, gw_inflight, gw_log, gw_ret>>
wh_vars == <<policies, clock, pc, payload, dl_count, nreq, extracted, now,
             update_data, exc, outcome, writes>>
ng_vars == <<ng_pc, ng_key, ng_clock, ng_days_out, ng_table, ng_target, ng_today,
             ng_failed, ng_scan, ng_i, ng_sends, ng_run, ng_nagged>>
vars == <<rs_vars, gw_vars, wh_vars, ng_vars>>

(***************************************************************************)
(* JSON values.  A string is the sequence of its characters.              *)
(***************************************************************************)
NULL == [t |-> "null"]
Str(s) == [t |-> "str", s |-> s]
Num(n) == [t |-> "num", n |-> n]
Bool(b) == [t |-> "bool", b |-> b]

\* Python truth value of a JSON scalar (if exp_date_str:)
Truthy(v) ==
    CASE v.t = "null" -> FALSE
      [] v.t = "str"  -> Len(v.s) > 0
      [] v.t = "num"  -> v.n # 0
      [] v.t = "bool" -> v.b
      [] v.t = "obj"  -> DOMAIN v.v # {}

(***************************************************************************)
(* datetime.strptime(s, "%Y-%m-%d").date()                                 *)
(* The format compiles to the regular expression                          *)
(*   (\d\d\d\d)-(1[0-2]|0[1-9]|[1-9])-(3[01]|[12]\d|0[1-9]|[1-9]| [1-9])   *)
(* matched at the start of s; text left over after the match is an error, *)
(* and so is a day the month does not have.                               *)
(***************************************************************************)
DigitChars == <<"0", "1", "2", "3", "4", "5", "6", "7", "8", "9">>
IsDigit(c) == \E i \in 1..10 : DigitChars[i] = c
DigitVal(c) == (CHOOSE i \in 1..10 : DigitChars[i] = c) - 1
At(s, i) == IF i >= 1 /\ i <= Len(s) THEN s[i] ELSE "$"

\* length of the month group matched at position i (0: no alternative fits
\* with the "-" that must follow)
MonthLen(s, i) ==
    LET a == At(s, i)
        b == At(s, i + 1)
        two == \/ (a = "1" /\ b \in {"0", "1", "2"})
               \/ (a = "0" /\ IsDigit(b) /\ b # "0")
        one == IsDigit(a) /\ a # "0"
    IN  IF two /\ At(s, i + 2) = "-" THEN 2
        ELSE IF one /\ At(s, i + 1) = "-" THEN 1
        ELSE 0

\* length of the day group matched at position i: the first alternative
\* that fits, nothing follows it in the pattern
DayLen(s, i) ==
    LET a == At(s, i)
        b == At(s, i + 1)
    IN  IF a = "3" /\ b \in {"0", "1"} THEN 2
        ELSE IF a \in {"1", "2"} /\ IsDigit(b) THEN 2
        ELSE IF a = "0" /\ IsDigit(b) /\ b # "0" THEN 2
        ELSE IF IsDigit(a) /\ a # "0" THEN 1
        ELSE IF a = " " /\ IsDigit(b) /\ b # "0" THEN 2
        ELSE 0

\* value of the digits of s[i .. i+n-1], a leading blank counting as nothing
RECURSIVE NumAt(_, _, _)
NumAt(s, i, n) ==
    IF n = 0 THEN 0
    ELSE LET c == At(s, i + n - 1)
         IN  (IF IsDigit(c) THEN DigitVal(c) ELSE 0)
             + 10 * NumAt(s, i, n - 1)

IsLeap(y) == (y % 4 = 0) /\ ((y % 100 # 0) \/ (y % 400 = 0))

DaysInMonth(y, m) ==
    IF m = 2 THEN (IF IsLeap(y) THEN 29 ELSE 28)
    ELSE IF m \in {4, 6, 9, 11} THEN 30
    ELSE 31

\* datetime.date(y, m, d) accepts the triple
ValidDate(y, m, d) ==
    /\ y >= 1 /\ y <= 9999
    /\ m >= 1 /\ m <= 12
    /\ d >= 1 /\ d <= DaysInMonth(y, m)

NoDate == <<0, 0, 0>>

\* [ok |-> TRUE, date |-> <<y, m, d>>], or ok = FALSE for ValueError
Strptime(s) ==
    LET yearOk == /\ \A i \in 1..4 : IsDigit(At(s, i))
                  /\ At(s, 5) = "-"
        ml == MonthLen(s, 6)
        dl == DayLen(s, 7 + ml)
        y  == NumAt(s, 1, 4)
        m  == NumAt(s, 6, ml)
        d  == NumAt(s, 7 + ml, dl)
    IN  IF /\ yearOk
           /\ ml > 0
           /\ dl > 0
           /\ Len(s) = 6 + ml + dl
           /\ ValidDate(y, m, d)
        THEN [ok |-> TRUE, date |-> <<y, m, d>>]
        ELSE [ok |-> FALSE, date |-> NoDate]

\* a < b on datetime.date values
DateLT(a, b) ==
    \/ a[1] < b[1]
    \/ a[1] = b[1] /\ a[2] < b[2]
    \/ a[1] = b[1] /\ a[2] = b[2] /\ a[3] < b[3]

(***************************************************************************)
(* Date validation block of process_coi_webhook (main.py 157-169).        *)
(* Result: the status, or "TypeError" when strptime is handed a value     *)
(* that is not a string (only ValueError is caught in the block).         *)
(***************************************************************************)
\* ResolveStatus rejecting the policy that expires on the current date
ResolveStatusLate(exp, cur) ==
    IF Truthy(exp)
    THEN IF exp.t # "str" THEN "TypeError"
         ELSE LET r == Strptime(exp.s)
              IN  IF r.ok
                  THEN (IF DateLT(cur, r.date) THEN "active" ELSE "rejected")
                  ELSE "error"
    ELSE "error"

\* lines 157-169
ResolveStatus(exp, cur) ==
    IF Truthy(exp)
    THEN IF exp.t # "str" THEN "TypeError"
         ELSE LET r == Strptime(exp.s)
              IN  IF r.ok
                  THEN (IF DateLT(r.date, cur) THEN "rejected" ELSE "active")
                  ELSE "error"
    ELSE "error"

(***************************************************************************)
(* SpecResolver: the date validation block on bounded inputs.             *)
(***************************************************************************)
YearTexts == { <<"2", "0", "2", "4">>, <<"2", "0", "2", "3">>,
               <<"0", "0", "0", "0">>, <<"2", "4">> }
MonthTexts == { <<"0", "6">>, <<"6">>, <<"0", "2">>, <<"1", "2">>,
                <<"1", "3">>, <<"0", "0">> }
DayTexts == { <<"1", "5">>, <<"0", "5">>, <<"5">>, <<" ", "5">>, <<"2", "9">>,
              <<"3", "0">>, <<"3", "1">>, <<"3", "2">>, <<"0", "0">> }
TailTexts == { <<>>, <<" ">>, <<"T">> }

DateTexts ==
    { y \o <<"-">> \o m \o <<"-">> \o d \o z :
        y \in YearTexts, m \in MonthTexts, d \in DayTexts, z \in TailTexts }

RsExpValues ==
    { Str(s) : s \in DateTexts }
      \cup { NULL, Str(<<>>), Str(<<"N", "/", "A">>), Str(<<"2", "0", "2", "4">>),
             Num(20240615), Num(0), Bool(TRUE), Bool(FALSE) }

RsTodays == { <<2024, 6, 5>>, <<2024, 6, 15>>, <<2024, 2, 29>> }

RsInit ==
    /\ rs_pc = "input"
    /\ rs_exp \in RsExpValues
    /\ rs_today \in RsTodays
    /\ rs_out = "none"

\* main.py 157-169 run on (rs_exp, rs_today)
RsValidate ==
    /\ rs_pc = "input"
    /\ rs_out' = ResolveStatus(rs_exp, rs_today)
    /\ rs_pc' = "done"
    /\ UNCHANGED <<rs_exp, rs_today>>

(***************************************************************************)
(* Model Gateway: extract_data_with_gemini_raw (main.py 51-141).          *)
(***************************************************************************)
target_models == << "gemini-2.5-flash-preview-09-2025", "gemini-2.5-flash",
                    "gemini-1.5-flash-latest", "gemini-1.5-flash" >>

NumModels == Len(target_models)

\* parsed JSON documents: an object holds the extracted fields
Obj(r) == [t |-> "obj", v |-> r]
Arr == [t |-> "arr"]

\* the keys process_coi_webhook reads with .get (a missing key reads as null)
Extraction(exp, insurer, limit, conf) ==
    [ policy_expiration_date |-> exp, insurer_name |-> insurer,
      general_liability_limit |-> limit, confidence_score |-> conf ]

\* A reply text is a sequence of tokens: the fences a model may wrap its
\* answer in, blanks, and the document itself.
FenceJson == [k |-> "fence-json"]   \* three backquotes and the word json
Fence == [k |-> "fence"]            \* three backquotes
Blank == [k |-> "ws"]
Doc(j) == [k |-> "doc", j |-> j]
Prose == [k |-> "prose"]

\* text.replace(FenceJson, "").replace(Fence, "")
RECURSIVE DropFences(_)
DropFences(text) ==
    IF text = <<>> THEN <<>>
    ELSE IF Head(text) \in {FenceJson, Fence} THEN DropFences(Tail(text))
    ELSE <<Head(text)>> \o DropFences(Tail(text))

\* str.strip()
RECURSIVE Strip(_)
Strip(text) ==
    IF text = <<>> THEN <<>>
    ELSE IF Head(text) = Blank THEN Strip(Tail(text))
    ELSE IF text[Len(text)] = Blank THEN Strip(SubSeq(text, 1, Len(text) - 1))
    ELSE text

\* json.loads(clean_text): [ok, value]; ok = FALSE is JSONDecodeError
JsonLoads(text) ==
    IF Len(text) = 1 /\ text[1].k = "doc"
    THEN [ok |-> TRUE, value |-> text[1].j]
    ELSE [ok |-> FALSE, value |-> NULL]

\* What one client.post can come to.
Raised(err) == [kind |-> "raise", code |-> 0, body |-> err]
Http(code, text) == [kind |-> "http", code |-> code, body |-> text]
\* success envelope: candidates[0].content.parts[0].text is there, or not
NoCandidates == [shape |-> FALSE]
Reply(text) == [shape |-> TRUE, text |-> text]

None == "None"
InvalidJson == "Invalid JSON structure"

\* HandleResponse without the check that the reply parses
HandleResponseUnchecked(resp, le) ==
    IF resp.kind = "raise"
    THEN [act |-> "continue", last_error |-> resp.body, value |-> NULL]
    ELSE IF resp.code = 404
    THEN [act |-> "continue", last_error |-> le, value |-> NULL]
    ELSE IF resp.code # 200
    THEN [act |-> "continue", last_error |-> resp.body, value |-> NULL]
    ELSE IF ~resp.body.shape
    THEN [act |-> "continue", last_error |-> InvalidJson, value |-> NULL]
    ELSE [act |-> "return", last_error |-> le,
          value |-> JsonLoads(Strip(DropFences(resp.body.text))).value]

\* Lines 117-139 for one candidate: what the loop does with the outcome of
\* the request.  act = "return" leaves the function with value; "continue"
\* goes on to the next candidate with last_error as given.
HandleResponse(resp, le) ==
    IF resp.kind = "raise"
    THEN [act |-> "continue", last_error |-> resp.body, value |-> NULL]
    ELSE IF resp.code = 404
    THEN [act |-> "continue", last_error |-> le, value |-> NULL]
    ELSE IF resp.code # 200
    THEN [act |-> "continue", last_error |-> resp.body, value |-> NULL]
    ELSE IF ~resp.body.shape
    THEN [act |-> "continue", last_error |-> InvalidJson, value |-> NULL]
    ELSE LET parsed == JsonLoads(Strip(DropFences(resp.body.text)))
         IN  IF parsed.ok
             THEN [act |-> "return", last_error |-> le, value |-> parsed.value]
             ELSE [act |-> "continue", last_error |-> InvalidJson,
                   value |-> NULL]

\* ValueError(f"All models failed. Last API response: {last_error}")
Error(msg, detail) == [msg |-> msg, detail |-> detail]
AllModelsFailed(le) == Error("All models failed. Last API response: ", le)

\* NextCandidate stepping over a candidate
NextCandidateSkip(i) == i + 2

\* the candidate tried after candidate i
NextCandidate(i) == i + 1

(***************************************************************************)
(* Documents and provider behaviours the model draws from.                *)
(***************************************************************************)
Acme == Str(<<"A", "c", "m", "e">>)
Zenith == Str(<<"Z", "e", "n">>)

\* Documents a model may extract.  A confidence score is written in
\* hundredths (95 for 0.95).
\* FutureText is after every "today" of the model, PastText before every
\* one, EdgeText is FirstDay itself, LooseText is not zero-padded.
FutureText == <<"2", "0", "2", "4", "-", "1", "2", "-", "3", "1">>
PastText == <<"2", "0", "2", "3", "-", "0", "6", "-", "3", "0">>
EdgeText == <<"2", "0", "2", "4", "-", "0", "6", "-", "1", "5">>
LooseText == <<"2", "0", "2", "4", "-", "6", "-", "5">>
JunkText == <<"N", "/", "A">>

DocFuture == Obj(Extraction(Str(FutureText), Acme, Num(1000000), Num(95)))
DocPast == Obj(Extraction(Str(PastText), Acme, Num(2000000), Num(90)))
DocEdge == Obj(Extraction(Str(EdgeText), Zenith, Num(500000), Num(80)))
DocLoose == Obj(Extraction(Str(LooseText), Zenith, NULL, Num(40)))
DocJunk == Obj(Extraction(Str(JunkText), Acme, Num(1000000), Num(10)))
DocNoDate == Obj(Extraction(NULL, Acme, Num(1000000), Num(95)))
DocEmptyDate == Obj(Extraction(Str(<<>>), Zenith, NULL, NULL))
DocNumDate == Obj(Extraction(Num(20240615), Acme, Num(1000000), Num(95)))

Objects == { DocFuture, DocPast, DocEdge, DocLoose, DocJunk, DocNoDate,
             DocEmptyDate, DocNumDate }

NotFound == Http(404, "model not found")
FailResponses ==
    { NotFound,
      Http(500, "internal error"),
      Http(429, "quota exceeded"),
      Raised("ReadTimeout"),
      Http(200, NoCandidates),
      Http(200, Reply(<<Prose>>)) }

OkResponses ==
    { Http(200, Reply(<<Doc(d)>>)) : d \in Objects \cup {Arr} }
      \cup { Http(200, Reply(<<FenceJson, Blank, Doc(DocFuture), Blank, Fence>>)) }

Responses == FailResponses \cup OkResponses

(***************************************************************************)
(* SpecGateway: one invocation, one step per request and per reply.       *)
(* gw_log is the history of attempts: <<model, response>> in the order    *)
(* the replies came in.                                                   *)
(***************************************************************************)
GwInit ==
    /\ gw_pc = "loop"
    /\ gw_i = 1
    /\ gw_last_error = None
    /\ gw_inflight = {}
    /\ gw_log = <<>>
    /\ gw_ret = NULL

\* line 117: the request to the current candidate goes out
GwPost ==
    /\ gw_pc = "loop"
    /\ gw_i <= NumModels
    /\ gw_inflight' = gw_inflight \cup {target_models[gw_i]}
    /\ gw_pc' = "await"
    /\ UNCHANGED <<gw_i, gw_last_error, gw_log, gw_ret>>

\* lines 117-139: the request completes (reply, error status, or raise)
GwReceive ==
    /\ gw_pc = "await"
    /\ \E resp \in Responses :
         LET h == HandleResponse(resp, gw_last_error)
         IN  /\ gw_inflight' = gw_inflight \ {target_models[gw_i]}
             /\ gw_log' = Append(gw_log, [model |-> target_models[gw_i],
                                          resp |-> resp])
             /\ gw_last_error' = h.last_error
             /\ IF h.act = "return"
                THEN /\ gw_pc' = "returned"
                     /\ gw_ret' = h.value
                     /\ UNCHANGED gw_i
                ELSE /\ gw_pc' = "loop"
                     /\ gw_i' = NextCandidate(gw_i)
                     /\ UNCHANGED gw_ret

\* line 141: the list is exhausted
GwExhaust ==
    /\ gw_pc = "loop"
    /\ gw_i > NumModels
    /\ gw_pc' = "raised"
    /\ gw_ret' = AllModelsFailed(gw_last_error)
    /\ UNCHANGED <<gw_i, gw_last_error, gw_inflight, gw_log>>

\* GwLoop giving up at the first candidate that fails
RECURSIVE GwLoopGiveUp(_, _, _, _)
GwLoopGiveUp(i, le, n, resps) ==
    IF i > NumModels
    THEN [ok |-> FALSE, value |-> NULL, nreq |-> n, error |-> AllModelsFailed(le)]
    ELSE LET h == HandleResponse(resps[i], le)
         IN  IF h.act = "return"
             THEN [ok |-> TRUE, value |-> h.value, nreq |-> n + 1,
                   error |-> Error("", None)]
             ELSE [ok |-> FALSE, value |-> NULL, nreq |-> n + 1,
                   error |-> AllModelsFailed(h.last_error)]

\* The whole loop of lines 113-141 over the replies resps[1..N] the
\* candidates would give: [ok, value, nreq, error].
RECURSIVE GwLoop(_, _, _, _)
GwLoop(i, le, n, resps) ==
    IF i > NumModels
    THEN [ok |-> FALSE, value |-> NULL, nreq |-> n, error |-> AllModelsFailed(le)]
    ELSE LET h == HandleResponse(resps[i], le)
         IN  IF h.act = "return"
             THEN [ok |-> TRUE, value |-> h.value, nreq |-> n + 1,
                   error |-> Error("", None)]
             ELSE GwLoop(NextCandidate(i), h.last_error, n + 1, resps)

GatewayOutcomes ==
    { GwLoop(1, None, 0, rs) : rs \in [1..NumModels -> Responses] }

(***************************************************************************)
(* Spec: invocations of process_coi_webhook (main.py 143-191) against the *)
(* policies table.  Each invocation in Events handles one event;         *)
(* they interleave at the steps below.                                    *)
(***************************************************************************)
MaxDays == 1

\* two invocations, so that every interleaving of two handlers is a behaviour
Events == {1, 2}
PolicyIds == {"P1", "P2"}
Absent == "<absent>"

FirstDay == <<2024, 6, 15>>

NextDay(d) ==
    IF d[3] < DaysInMonth(d[1], d[2]) THEN <<d[1], d[2], d[3] + 1>>
    ELSE IF d[2] < 12 THEN <<d[1], d[2] + 1, 1>>
    ELSE <<d[1] + 1, 1, 1>>

RECURSIVE DateOf(_)
DateOf(c) == IF c = 0 THEN FirstDay ELSE NextDay(DateOf(c - 1))

Payloads ==
    { [id |-> "P1", document_url |-> "cois/p1.pdf"],
      [id |-> "P2", document_url |-> "cois/p2.PNG"],
      [id |-> Absent, document_url |-> "cois/p1.pdf"],
      [id |-> "P1", document_url |-> Absent] }

NoPayload == [id |-> Absent, document_url |-> Absent]

\* a row before its first ingestion
PendingRow ==
    [ carrier_name |-> NULL, policy_number |-> NULL, expiration_date |-> NULL,
      limit_amount |-> NULL, ocr_confidence_score |-> NULL, ocr_data |-> NULL,
      processing_status |-> "pending" ]

NoUpdate == [processing_status |-> "none"]
NoOutcome == [status |-> "none"]
NoError == Error("", None)

StorageDownloadFailed == Error("Storage Download Failed", None)
AttributeError == Error("object has no attribute 'get'", None)
TypeError == Error("strptime() argument 1 must be str", None)
UpdateFailed == Error("policies update failed", None)

\* lines 172-180
BuildUpdate(data, exp, st) ==
    [ carrier_name |-> data.insurer_name,
      policy_number |-> Str(<<"P", "E", "N", "D", "I", "N", "G">>),
      expiration_date |-> IF Truthy(exp) THEN exp ELSE NULL,
      limit_amount |-> data.general_liability_limit,
      ocr_confidence_score |-> data.confidence_score,
      ocr_data |-> Obj(data),
      processing_status |-> st ]

\* ErrorMark with a status the table's readers do not know
ErrorMarkTypo == [processing_status |-> "failed"]

\* line 188
ErrorMark == [processing_status |-> "error"]

\* the row filter of .eq("id", policy_id)
UpdateKey(e) == payload[e].id

\* ApplyUpdate writing the status of the update only
ApplyUpdateStatusOnly(tbl, key, data) ==
    [ k \in DOMAIN tbl |->
        IF k = key
        THEN [ f \in DOMAIN tbl[k] |->
                 IF f = "processing_status" THEN data[f] ELSE tbl[k][f] ]
        ELSE tbl[k] ]

\* ApplyUpdate without the row filter
ApplyUpdateAll(tbl, key, data) ==
    [ k \in DOMAIN tbl |->
        [ f \in DOMAIN tbl[k] |->
            IF f \in DOMAIN data THEN data[f] ELSE tbl[k][f] ] ]

\* ApplyUpdate replacing the row by the update's fields, the rest cleared
ApplyUpdateReplace(tbl, key, data) ==
    [ k \in DOMAIN tbl |->
        IF k = key
        THEN [ f \in DOMAIN tbl[k] |->
                 IF f \in DOMAIN data THEN data[f] ELSE NULL ]
        ELSE tbl[k] ]

\* supabase.table("policies").update(data).eq("id", key).execute()
ApplyUpdate(tbl, key, data) ==
    [ k \in DOMAIN tbl |->
        IF k = key
        THEN [ f \in DOMAIN tbl[k] |->
                 IF f \in DOMAIN data THEN data[f] ELSE tbl[k][f] ]
        ELSE tbl[k] ]

WhInit ==
    /\ policies = [k \in PolicyIds |-> PendingRow]
    /\ clock = 0
    /\ pc = [e \in Events |-> "idle"]
    /\ payload = [e \in Events |-> NoPayload]
    /\ dl_count = [e \in Events |-> 0]
    /\ nreq = [e \in Events |-> 0]
    /\ extracted = [e \in Events |-> NULL]
    /\ now = [e \in Events |-> NoDate]
    /\ update_data = [e \in Events |-> NoUpdate]
    /\ exc = [e \in Events |-> NoError]
    /\ outcome = [e \in Events |-> NoOutcome]
    /\ writes = [e \in Events |-> <<>>]

\* lines 144-148: the handler is entered with a payload; record['id'] and
\* record['document_url'] are read before the try, so a missing key raises
\* KeyError out of the handler
Receive(e) ==
    /\ pc[e] = "idle"
    /\ \E body \in Payloads :
         /\ payload' = [payload EXCEPT ![e] = body]
         /\ pc' = [pc EXCEPT ![e] =
                     IF body.id = Absent \/ body.document_url = Absent
                     THEN "raised" ELSE "download"]
    /\ UNCHANGED <<policies, clock, dl_count, nreq, extracted, now,
                   update_data, exc, outcome, writes>>

\* line 152 and download_file_from_supabase (41-49): the bytes, or
\* HTTPException("Storage Download Failed") caught at line 185
Download(e) ==
    /\ pc[e] = "download"
    /\ dl_count' = [dl_count EXCEPT ![e] = @ + 1]
    /\ \E ok \in BOOLEAN :
         IF ok
         THEN /\ pc' = [pc EXCEPT ![e] = "extract"]
              /\ UNCHANGED exc
         ELSE /\ pc' = [pc EXCEPT ![e] = "except"]
              /\ exc' = [exc EXCEPT ![e] = StorageDownloadFailed]
    /\ UNCHANGED <<policies, clock, payload, nreq, extracted, now,
                   update_data, outcome, writes>>

\* line 155: the gateway runs to its end, whatever the candidates reply
Extract(e) ==
    /\ pc[e] = "extract"
    /\ \E g \in GatewayOutcomes :
         /\ nreq' = [nreq EXCEPT ![e] = g.nreq]
         /\ IF g.ok
            THEN /\ extracted' = [extracted EXCEPT ![e] = g.value]
                 /\ pc' = [pc EXCEPT ![e] = "validate"]
                 /\ UNCHANGED exc
            ELSE /\ exc' = [exc EXCEPT ![e] = g.error]
                 /\ pc' = [pc EXCEPT ![e] = "except"]
                 /\ UNCHANGED extracted
    /\ UNCHANGED <<policies, clock, payload, dl_count, now, update_data,
                   outcome, writes>>

\* lines 157-180: .get on the parsed document (AttributeError when it is
\* not an object), the date validation, and update_data
Validate(e) ==
    /\ pc[e] = "validate"
    /\ now' = [now EXCEPT ![e] = DateOf(clock)]
    /\ IF extracted[e].t # "obj"
       THEN /\ exc' = [exc EXCEPT ![e] = AttributeError]
            /\ pc' = [pc EXCEPT ![e] = "except"]
            /\ UNCHANGED update_data
       ELSE LET data == extracted[e].v
                exp == data.policy_expiration_date
                st == ResolveStatus(exp, DateOf(clock))
            IN  IF st = "TypeError"
                THEN /\ exc' = [exc EXCEPT ![e] = TypeError]
                     /\ pc' = [pc EXCEPT ![e] = "except"]
                     /\ UNCHANGED update_data
                ELSE /\ update_data' =
                          [update_data EXCEPT ![e] = BuildUpdate(data, exp, st)]
                     /\ pc' = [pc EXCEPT ![e] = "update"]
                     /\ UNCHANGED exc
    /\ UNCHANGED <<policies, clock, payload, dl_count, nreq, extracted,
                   outcome, writes>>

\* lines 182-183: the primary update, then the success outcome; a failed
\* update raises into line 185
PrimaryUpdate(e) ==
    /\ pc[e] = "update"
    /\ \E ok \in BOOLEAN :
         /\ writes' = [writes EXCEPT ![e] =
                         Append(@, [kind |-> "primary", key |-> UpdateKey(e),
                                    data |-> update_data[e], ok |-> ok])]
         /\ IF ok
            THEN /\ policies' = ApplyUpdate(policies, UpdateKey(e), update_data[e])
                 /\ outcome' = [outcome EXCEPT ![e] =
                                  [status |-> "success",
                                   policy_status |-> update_data[e].processing_status]]
                 /\ pc' = [pc EXCEPT ![e] = "done"]
                 /\ UNCHANGED exc
            ELSE /\ exc' = [exc EXCEPT ![e] = UpdateFailed]
                 /\ pc' = [pc EXCEPT ![e] = "except"]
                 /\ UNCHANGED <<policies, outcome>>
    /\ UNCHANGED <<clock, payload, dl_count, nreq, extracted, now, update_data>>

ErrorMarkFailed == Error("error mark failed", None)

\* SecondaryUpdate letting the failure of the error mark take the place of
\* the exception being handled
SecondaryUpdateMasking(e) ==
    /\ pc[e] = "except"
    /\ \E ok \in BOOLEAN :
         /\ writes' = [writes EXCEPT ![e] =
                         Append(@, [kind |-> "secondary", key |-> UpdateKey(e),
                                    data |-> ErrorMark, ok |-> ok])]
         /\ policies' = IF ok THEN ApplyUpdate(policies, UpdateKey(e), ErrorMark)
                        ELSE policies
         /\ outcome' = [outcome EXCEPT ![e] =
                          [status |-> "error",
                           message |-> IF ok THEN exc[e] ELSE ErrorMarkFailed]]
    /\ pc' = [pc EXCEPT ![e] = "done"]
    /\ UNCHANGED <<clock, payload, dl_count, nreq, extracted, now, update_data, exc>>

\* lines 185-191: the error-marking update, its own failure passed over,
\* then the error outcome
SecondaryUpdate(e) ==
    /\ pc[e] = "except"
    /\ \E ok \in BOOLEAN :
         /\ writes' = [writes EXCEPT ![e] =
                         Append(@, [kind |-> "secondary", key |-> UpdateKey(e),
                                    data |-> ErrorMark, ok |-> ok])]
         /\ policies' = IF ok THEN ApplyUpdate(policies, UpdateKey(e), ErrorMark)
                        ELSE policies
    /\ outcome' = [outcome EXCEPT ![e] = [status |-> "error", message |-> exc[e]]]
    /\ pc' = [pc EXCEPT ![e] = "done"]
    /\ UNCHANGED <<clock, payload, dl_count, nreq, extracted, now, update_data, exc>>

\* midnight passes
Tick ==
    /\ clock < MaxDays
    /\ clock' = clock + 1
    /\ UNCHANGED <<policies, pc, payload, dl_count, nreq, extracted, now,
                   update_data, exc, outcome, writes>>

(***************************************************************************)
(* Nag engine (nag_engine.py): get_expiring_policies, send_email and      *)
(* run_nag_cycle over the policies table and its vendors.                  *)
(***************************************************************************)
MaxNagDays == 1
MaxRuns == 2

NagFirstDay == <<2024, 6, 1>>

\* d + timedelta(days=n), a day at a time (each day is worked out once)
RECURSIVE AddDays(_, _)
AddDays(d, n) ==
    IF n = 0 THEN d
    ELSE CHOOSE r \in {NextDay(p) : p \in {AddDays(d, n - 1)}} : TRUE

\* datetime.now().date() on the nag engine's clock
NagToday == AddDays(NagFirstDay, ng_clock)

Digit2(n) == <<DigitChars[((n \div 10) % 10) + 1], DigitChars[(n % 10) + 1]>>

\* date.isoformat(): YYYY-MM-DD, zero padded
IsoFormat(d) ==
    Digit2(d[1] \div 100) \o Digit2(d[1] % 100) \o <<"-">> \o Digit2(d[2])
      \o <<"-">> \o Digit2(d[3])

\* the date the table reads in a YYYY-MM-DD text
ToDate(s) == <<NumAt(s, 1, 4), NumAt(s, 6, 2), NumAt(s, 9, 2)>>

\* the vendors table, by id: company_name and contact_email
vendors ==
    [ V1 |-> [company_name |-> Str(<<"A", "c", "m", "e">>),
              contact_email |-> Str(<<"a", "@", "x">>)],
      V2 |-> [company_name |-> Str(<<"B", "o", "l", "t">>),
              contact_email |-> Str(<<>>)],
      V3 |-> [company_name |-> Str(<<"C", "o", "r", "e">>),
              contact_email |-> NULL] ]

NoVendor == "none"
VendorIds == {NoVendor, "V1", "V2", "V3"}

\* a row of the policies table as the nag engine reads it
PolicyRow(id, st, exp, vid) ==
    [ id |-> id, processing_status |-> st, expiration_date |-> exp,
      carrier_name |-> Str(<<"H">>), vendor_id |-> vid ]

\* select("*, vendors(company_name, contact_email)"): the row with the
\* vendor it references embedded, null when it references none
Joined(row) ==
    [ id |-> row.id, processing_status |-> row.processing_status,
      expiration_date |-> row.expiration_date,
      carrier_name |-> row.carrier_name,
      vendors |-> IF row.vendor_id = NoVendor THEN NULL
                  ELSE Obj(vendors[row.vendor_id]) ]

\* the three filters of the query, lines 40-42
Matches(row, target_date, today) ==
    /\ row.processing_status = "active"
    /\ row.expiration_date # NULL
    /\ ~DateLT(ToDate(IsoFormat(target_date)), ToDate(row.expiration_date.s))
    /\ ~DateLT(ToDate(row.expiration_date.s), ToDate(IsoFormat(today)))

RECURSIVE MapJoined(_)
MapJoined(rows) ==
    IF rows = <<>> THEN <<>>
    ELSE <<Joined(Head(rows))>> \o MapJoined(Tail(rows))

\* response.data of the query, lines 38-43
Query(table, target_date, today) ==
    MapJoined(SelectSeq(table, LAMBDA r : Matches(r, target_date, today)))

\* ScanOutcome handing back rows although the query failed
ScanOutcomeLeaky(ok, rows) == rows

\* lines 45-48: the rows, or the empty list when the query raised
ScanOutcome(ok, rows) == IF ok THEN rows ELSE <<>>

FallbackEmail == Str(<<"m", "@", "g">>)
ValuedVendor == Str(<<"V", "V">>)

\* Recipient without the check that the contact email is non-empty
RecipientNoFallback(policy) ==
    IF Truthy(policy.vendors)
    THEN [ target_email |-> policy.vendors.v.contact_email,
           vendor_name |-> policy.vendors.v.company_name ]
    ELSE [ target_email |-> FallbackEmail, vendor_name |-> ValuedVendor ]

\* lines 57-64
Recipient(policy) ==
    IF Truthy(policy.vendors) /\ Truthy(policy.vendors.v.contact_email)
    THEN [ target_email |-> policy.vendors.v.contact_email,
           vendor_name |-> policy.vendors.v.company_name ]
    ELSE [ target_email |-> FallbackEmail, vendor_name |-> ValuedVendor ]

\* NextPolicy leaving the loop when a send failed
NextPolicyStopOnFailure(i, n, ok) == IF ok THEN i + 1 ELSE n + 1

\* line 120: the loop moves to the next policy whatever the send did
NextPolicy(i, n, ok) == i + 1

NagStatuses == {"active", "rejected", "pending"}

\* expiration dates around the ends of the window, and none
NagExpirations ==
    { NULL } \cup
    { Str(IsoFormat(d)) :
        d \in { <<2024, 5, 31>>, <<2024, 6, 1>>, <<2024, 6, 2>>, <<2024, 6, 20>>,
                <<2024, 7, 1>>, <<2024, 7, 2>>, <<2024, 7, 15>> } }

Horizons == {0, 1, 30}

\* get_expiring_policies called on its own, with any horizon
ScannerInit ==
    /\ ng_pc = "target"
    /\ ng_key = FALSE
    /\ ng_clock = 0
    /\ ng_days_out \in Horizons
    /\ \E s1, s2 \in NagStatuses, x1, x2 \in NagExpirations,
          v1, v2 \in {NoVendor, "V1"} :
         ng_table = << PolicyRow("P1", s1, x1, v1), PolicyRow("P2", s2, x2, v2) >>
    /\ ng_target = NoDate
    /\ ng_today = NoDate
    /\ ng_failed = FALSE
    /\ ng_scan = <<>>
    /\ ng_i = 1
    /\ ng_sends = <<>>
    /\ ng_run = 0
    /\ ng_nagged = [k \in PolicyIds |-> 0]

\* the scheduler's process: run_nag_cycle not yet called
NagInit ==
    /\ ng_pc = "idle"
    /\ ng_key \in BOOLEAN
    /\ ng_clock = 0
    /\ ng_days_out = 30
    /\ \E x1 \in {Str(IsoFormat(<<2024, 6, 20>>)), Str(IsoFormat(<<2024, 7, 2>>))},
          s2 \in {"active", "rejected"}, v1, v2 \in VendorIds :
         ng_table = << PolicyRow("P1", "active", x1, v1),
                       PolicyRow("P2", s2, Str(IsoFormat(<<2024, 7, 1>>)), v2) >>
    /\ ng_target = NoDate
    /\ ng_today = NoDate
    /\ ng_failed = FALSE
    /\ ng_scan = <<>>
    /\ ng_i = 1
    /\ ng_sends = <<>>
    /\ ng_run = 0
    /\ ng_nagged = [k \in PolicyIds |-> 0]

\* lines 110-112: the scheduler calls run_nag_cycle, which calls
\* get_expiring_policies(days_out=30)
NgStart ==
    /\ ng_pc \in {"idle", "done"}
    /\ ng_run < MaxRuns
    /\ ng_run' = ng_run + 1
    /\ ng_pc' = "target"
    /\ ng_days_out' = 30
    /\ ng_target' = NoDate
    /\ ng_today' = NoDate
    /\ ng_failed' = FALSE
    /\ ng_scan' = <<>>
    /\ ng_i' = 1
    /\ ng_sends' = <<>>
    /\ UNCHANGED <<ng_key, ng_clock, ng_table, ng_nagged>>

\* line 29
NgTarget ==
    /\ ng_pc = "target"
    /\ ng_target' = AddDays(NagToday, ng_days_out)
    /\ ng_pc' = "today"
    /\ UNCHANGED <<ng_key, ng_clock, ng_days_out, ng_table, ng_today, ng_failed,
                   ng_scan, ng_i, ng_sends, ng_run, ng_nagged>>

\* line 30
NgToday ==
    /\ ng_pc = "today"
    /\ ng_today' = NagToday
    /\ ng_pc' = "query"
    /\ UNCHANGED <<ng_key, ng_clock, ng_days_out, ng_table, ng_target, ng_failed,
                   ng_scan, ng_i, ng_sends, ng_run, ng_nagged>>

\* lines 34-48: the query answers, or raises
NgQuery ==
    /\ ng_pc = "query"
    /\ \E ok \in BOOLEAN :
         /\ ng_failed' = ~ok
         /\ ng_scan' = ScanOutcome(ok, Query(ng_table, ng_target, ng_today))
    /\ ng_pc' = "returned"
    /\ UNCHANGED <<ng_key, ng_clock, ng_days_out, ng_table, ng_target, ng_today,
                   ng_i, ng_sends, ng_run, ng_nagged>>

\* lines 114-118
NgCheck ==
    /\ ng_pc = "returned"
    /\ ng_pc' = IF ng_scan = <<>> THEN "done" ELSE "loop"
    /\ UNCHANGED <<ng_key, ng_clock, ng_days_out, ng_table, ng_target, ng_today,
                   ng_failed, ng_scan, ng_i, ng_sends, ng_run, ng_nagged>>

\* lines 120-121 with send_email (50-108): with the key the send goes out and
\* may be refused, which is logged; without it the mail is only logged
NgSend ==
    /\ ng_pc = "loop"
    /\ ng_i <= Len(ng_scan)
    /\ LET policy == ng_scan[ng_i]
           to == Recipient(policy)
       IN  \E ok \in (IF ng_key THEN BOOLEAN ELSE {TRUE}) :
             /\ ng_sends' = Append(ng_sends,
                              [ doc_id |-> policy.id,
                                target_email |-> to.target_email,
                                vendor_name |-> to.vendor_name,
                                live |-> ng_key, ok |-> ok ])
             /\ ng_nagged' = [ng_nagged EXCEPT ![policy.id] = @ + 1]
             /\ ng_i' = NextPolicy(ng_i, Len(ng_scan), ok)
    /\ UNCHANGED <<ng_pc, ng_key, ng_clock, ng_days_out, ng_table, ng_target,
                   ng_today, ng_failed, ng_scan, ng_run>>

\* line 123
NgEnd ==
    /\ ng_pc = "loop"
    /\ ng_i > Len(ng_scan)
    /\ ng_pc' = "done"
    /\ UNCHANGED <<ng_key, ng_clock, ng_days_out, ng_table, ng_target, ng_today,
                   ng_failed, ng_scan, ng_i, ng_sends, ng_run, ng_nagged>>

\* midnight passes
NgTick ==
    /\ ng_clock < MaxNagDays
    /\ ng_clock' = ng_clock + 1
    /\ UNCHANGED <<ng_pc, ng_key, ng_days_out, ng_table, ng_target, ng_today,
                   ng_failed, ng_scan, ng_i, ng_sends, ng_run, ng_nagged>>

\* between two cycles a renewal is ingested: main.py's primary update puts
\* a new status on the row
NgRenew ==
    /\ ng_pc = "done"
    /\ \E k \in 1..Len(ng_table), st \in {"rejected", "error"} :
         /\ ng_table[k].processing_status = "active"
         /\ ng_table' = [ng_table EXCEPT ![k].processing_status = st]
    /\ UNCHANGED <<ng_pc, ng_key, ng_clock, ng_days_out, ng_target, ng_today,
                   ng_failed, ng_scan, ng_i, ng_sends, ng_run, ng_nagged>>

RsIdle == rs_pc = "off" /\ rs_exp = NULL /\ rs_today = NoDate /\ rs_out = "none"
GwIdle ==
    /\ gw_pc = "off" /\ gw_i = 1 /\ gw_last_error = None
    /\ gw_inflight = {} /\ gw_log = <<>> /\ gw_ret = NULL
WhIdle ==
    /\ policies = [k \in PolicyIds |-> PendingRow]
    /\ clock = 0
    /\ pc = [e \in Events |-> "off"]
    /\ payload = [e \in Events |-> NoPayload]
    /\ dl_count = [e \in Events |-> 0]
    /\ nreq = [e \in Events |-> 0]
    /\ extracted = [e \in Events |-> NULL]
    /\ now = [e \in Events |-> NoDate]
    /\ update_data = [e \in Events |-> NoUpdate]
    /\ exc = [e \in Events |-> NoError]
    /\ outcome = [e \in Events |-> NoOutcome]
    /\ writes = [e \in Events |-> <<>>]

NgIdle ==
    /\ ng_pc = "off" /\ ng_key = FALSE /\ ng_clock = 0 /\ ng_days_out = 0
    /\ ng_table = <<>> /\ ng_target = NoDate /\ ng_today = NoDate
    /\ ng_failed = FALSE /\ ng_scan = <<>> /\ ng_i = 1 /\ ng_sends = <<>>
    /\ ng_run = 0 /\ ng_nagged = [k \in PolicyIds |-> 0]

ResolverInit == RsInit /\ GwIdle /\ WhIdle /\ NgIdle
ResolverNext == RsValidate /\ UNCHANGED <<gw_vars, wh_vars, ng_vars>>
SpecResolver == ResolverInit /\ [][ResolverNext]_vars

GatewayInit == GwInit /\ RsIdle /\ WhIdle /\ NgIdle
GatewayNext ==
    \/ GwPost /\ UNCHANGED <<rs_vars, wh_vars, ng_vars>>
    \/ GwReceive /\ UNCHANGED <<rs_vars, wh_vars, ng_vars>>
    \/ GwExhaust /\ UNCHANGED <<rs_vars, wh_vars, ng_vars>>
SpecGateway == GatewayInit /\ [][GatewayNext]_vars

Init == WhInit /\ RsIdle /\ GwIdle /\ NgIdle
Next ==
    \/ \E e \in Events : Receive(e) /\ UNCHANGED <<rs_vars, gw_vars, ng_vars>>
    \/ \E e \in Events : Download(e) /\ UNCHANGED <<rs_vars, gw_vars, ng_vars>>
    \/ \E e \in Events : Extract(e) /\ UNCHANGED <<rs_vars, gw_vars, ng_vars>>
    \/ \E e \in Events : Validate(e) /\ UNCHANGED <<rs_vars, gw_vars, ng_vars>>
    \/ \E e \in Events : PrimaryUpdate(e) /\ UNCHANGED <<rs_vars, gw_vars, ng_vars>>
    \/ \E e \in Events : SecondaryUpdate(e) /\ UNCHANGED <<rs_vars, gw_vars, ng_vars>>
    \/ Tick /\ UNCHANGED <<rs_vars, gw_vars, ng_vars>>
Spec == Init /\ [][Next]_vars

ScannerInitAll == ScannerInit /\ RsIdle /\ GwIdle /\ WhIdle
ScannerNext ==
    \/ NgTarget /\ UNCHANGED <<rs_vars, gw_vars, wh_vars>>
    \/ NgToday /\ UNCHANGED <<rs_vars, gw_vars, wh_vars>>
    \/ NgQuery /\ UNCHANGED <<rs_vars, gw_vars, wh_vars>>
    \/ NgTick /\ UNCHANGED <<rs_vars, gw_vars, wh_vars>>
SpecScanner == ScannerInitAll /\ [][ScannerNext]_vars

NagInitAll == NagInit /\ RsIdle /\ GwIdle /\ WhIdle
NagNext ==
    \/ NgStart /\ UNCHANGED <<rs_vars, gw_vars, wh_vars>>
    \/ NgTarget /\ UNCHANGED <<rs_vars, gw_vars, wh_vars>>
    \/ NgToday /\ UNCHANGED <<rs_vars, gw_vars, wh_vars>>
    \/ NgQuery /\ UNCHANGED <<rs_vars, gw_vars, wh_vars>>
    \/ NgCheck /\ UNCHANGED <<rs_vars, gw_vars, wh_vars>>
    \/ NgSend /\ UNCHANGED <<rs_vars, gw_vars, wh_vars>>
    \/ NgEnd /\ UNCHANGED <<rs_vars, gw_vars, wh_vars>>
    \/ NgTick /\ UNCHANGED <<rs_vars, gw_vars, wh_vars>>
    \/ NgRenew /\ UNCHANGED <<rs_vars, gw_vars, wh_vars>>
SpecNag == NagInitAll /\ [][NagNext]_vars

\* a cycle that was started goes on: the code is one sequential thread in
\* which every call returns or raises
NagCycleStep ==
    (NgTarget \/ NgToday \/ NgQuery \/ NgCheck \/ NgSend \/ NgEnd)
      /\ UNCHANGED <<rs_vars, gw_vars, wh_vars>>
SpecNagLive == NagInitAll /\ [][NagNext]_vars /\ WF_vars(NagCycleStep)

(***************************************************************************)
(* Claims about the date validation block (SpecResolver).                 *)
(***************************************************************************)
\* s is a date written YYYY-MM-DD: four, two and two digits
IsIsoDate(s) ==
    /\ Len(s) = 10
    /\ \A i \in {1, 2, 3, 4, 6, 7, 9, 10} : IsDigit(s[i])
    /\ s[5] = "-" /\ s[8] = "-"
    /\ ValidDate(NumAt(s, 1, 4), NumAt(s, 6, 2), NumAt(s, 9, 2))

IsoDate(s) == <<NumAt(s, 1, 4), NumAt(s, 6, 2), NumAt(s, 9, 2)>>

StatusByClaim(exp, cur) ==
    IF exp.t # "str" \/ ~IsIsoDate(exp.s) THEN "error"
    ELSE IF DateLT(IsoDate(exp.s), cur) THEN "rejected"
    ELSE "active"

\* C4: the resolved status is error when the expiration value is absent or
\* not a valid YYYY-MM-DD date, rejected when it is a valid date before the
\* current date, active when it is a valid date on or after it.
C4_StatusResolver ==
    rs_pc = "done" => rs_out = StatusByClaim(rs_exp, rs_today)

(***************************************************************************)
(* Claims about the gateway (SpecGateway).                                *)
(***************************************************************************)
IsNotFound(resp) == resp.kind = "http" /\ resp.code = 404

Parseable(resp) ==
    /\ resp.kind = "http"
    /\ resp.code = 200
    /\ resp.body.shape
    /\ JsonLoads(Strip(DropFences(resp.body.text))).ok

ParsedResult(resp) == JsonLoads(Strip(DropFences(resp.body.text))).value

InOrder == \A j \in 1..Len(gw_log) : gw_log[j].model = target_models[j]

\* C1: candidates are requested in list order, one request in flight at a
\* time; when candidates 1..k-1 reported not-found and candidate k replied
\* with parseable output, the gateway has returned candidate k's parsed
\* result and no request went or goes to candidates k+1..N.
C1_FirstSuccessWins ==
    /\ InOrder
    /\ Cardinality(gw_inflight) <= 1
    /\ gw_inflight # {} =>
         /\ Len(gw_log) < NumModels
         /\ gw_inflight = {target_models[Len(gw_log) + 1]}
    /\ \A k \in 1..Len(gw_log) :
         ( /\ \A j \in 1..(k - 1) : IsNotFound(gw_log[j].resp)
           /\ Parseable(gw_log[k].resp) )
         => /\ gw_pc = "returned"
            /\ gw_ret = ParsedResult(gw_log[k].resp)
            /\ Len(gw_log) = k
            /\ gw_inflight = {}

C1_Witness ==
    /\ gw_pc = "returned"
    /\ Len(gw_log) = 3
    /\ IsNotFound(gw_log[1].resp) /\ IsNotFound(gw_log[2].resp)
    /\ gw_log[3].model = "gemini-1.5-flash-latest"
    /\ gw_ret = DocPast

AllFailed == \A j \in 1..Len(gw_log) : ~Parseable(gw_log[j].resp)

\* C2: whatever way each candidate fails, the gateway raises the exhaustion
\* error after exactly N requests, one per candidate: it neither raises nor
\* returns before the N-th failure, and asks nobody after it.
C2_ExhaustionAfterN ==
    /\ Len(gw_log) <= NumModels
    /\ gw_pc = "raised" =>
         /\ Len(gw_log) = NumModels
         /\ InOrder
         /\ AllFailed
         /\ gw_inflight = {}
         /\ gw_ret.msg = "All models failed. Last API response: "
    /\ (AllFailed /\ Len(gw_log) < NumModels) => gw_pc \in {"loop", "await"}
    /\ (AllFailed /\ Len(gw_log) = NumModels) =>
         /\ gw_pc \in {"loop", "raised"}
         /\ gw_inflight = {}

C2_Witness ==
    /\ gw_pc = "raised"
    /\ IsNotFound(gw_log[1].resp)
    /\ gw_log[2].resp = Raised("ReadTimeout")
    /\ gw_log[3].resp = Http(200, Reply(<<Prose>>))
    /\ gw_log[4].resp = Http(500, "internal error")

\* what a failed attempt has to tell: the raised error, the body of the
\* error reply, or that the reply did not parse
AttemptDetail(resp) ==
    IF resp.kind = "raise" THEN resp.body
    ELSE IF resp.code # 200 THEN resp.body
    ELSE InvalidJson

\* C3: every failed attempt is recorded, a not-found one included, and the
\* exhaustion error carries the detail of the last candidate tried, which
\* is never absent.
C3_LastAttemptDetail ==
    gw_pc = "raised" =>
        /\ gw_ret.detail = AttemptDetail(gw_log[Len(gw_log)].resp)
        /\ gw_ret.detail # None

(***************************************************************************)
(* Claims about process_coi_webhook (Spec).                               *)
(***************************************************************************)
Terminal == {"active", "rejected", "error"}
Fields == DOMAIN PendingRow
RowOf(e) == policies[payload[e].id]
SomeWriteOk(e) == \E i \in 1..Len(writes[e]) : writes[e][i].ok
PrimaryFailed(e) ==
    /\ writes[e] # <<>>
    /\ writes[e][1].kind = "primary"
    /\ ~writes[e][1].ok
ErrorOutcome(e) == [status |-> "error", message |-> exc[e]]

\* C5: whatever the payload and whatever fails, the handler returns
\* {status: success, policy_status} or {status: error, message}; no
\* exception escapes it.
C5_NeverRaises ==
    \A e \in Events :
        /\ pc[e] # "raised"
        /\ pc[e] = "done" => outcome[e].status \in {"success", "error"}

\* the extracted expiration date is absent, or a value the %Y-%m-%d parser
\* does not take
DateUnusable(exp) == exp.t # "str" \/ ~Strptime(exp.s).ok

\* C6: a result whose expiration date is absent or unparsable is no hard
\* failure: status error is resolved, and unless the primary update itself
\* fails the handler returns success with policy_status error, the update
\* carrying status error and the other fields as extracted.
C6_MissingDateIsSoft ==
    \A e \in Events :
        ( /\ extracted[e].t = "obj"
          /\ DateUnusable(extracted[e].v.policy_expiration_date)
          /\ pc[e] \in {"update", "except", "done"} )
        => /\ pc[e] = "except" => PrimaryFailed(e)
           /\ update_data[e].processing_status = "error"
           /\ update_data[e].carrier_name = extracted[e].v.insurer_name
           /\ update_data[e].limit_amount = extracted[e].v.general_liability_limit
           /\ update_data[e].ocr_confidence_score = extracted[e].v.confidence_score
           /\ update_data[e].ocr_data = extracted[e]
           /\ (pc[e] = "done" /\ ~PrimaryFailed(e)) =>
                /\ outcome[e] = [status |-> "success", policy_status |-> "error"]
                /\ writes[e] = << [kind |-> "primary", key |-> payload[e].id,
                                   data |-> update_data[e], ok |-> TRUE] >>

\* C7 as stated: once an event has completed, whatever failed during it,
\* its record's status is one of active, rejected, error.
C7_AlwaysTerminal ==
    \A e \in Events :
        pc[e] = "done" => RowOf(e).processing_status \in Terminal

\* C7 as amended: once an event has completed with at least one of its
\* updates succeeding, its record's status is one of active, rejected,
\* error; every completed event has attempted one or two updates.
C7_TerminalOnceWritten ==
    \A e \in Events :
        pc[e] = "done" =>
            /\ Len(writes[e]) \in {1, 2}
            /\ SomeWriteOk(e) => RowOf(e).processing_status \in Terminal

C7_Witness ==
    \E e \in Events :
        /\ pc[e] = "done"
        /\ Len(writes[e]) = 2
        /\ ~writes[e][1].ok /\ writes[e][2].ok
        /\ RowOf(e).processing_status = "error"

\* C8 as stated: every event mutates exactly one record, so every
\* completed event has written its record.
C8_ExactlyOneMutated ==
    \A e \in Events : pc[e] = "done" => SomeWriteOk(e)

RowsChanged == { k \in PolicyIds : policies'[k] # policies[k] }

\* C8 as amended: every update an event issues is keyed by the event's
\* record identifier, a step changes at most one row, the row of the event
\* that takes it, and every other row keeps every field.
C8_OnlyOwnRecord ==
    /\ [](\A e \in Events : \A i \in 1..Len(writes[e]) :
              writes[e][i].key = payload[e].id)
    /\ [][ /\ Cardinality(RowsChanged) <= 1
           /\ \A k \in RowsChanged :
                \E e \in Events :
                    /\ payload[e].id = k
                    /\ pc[e] \in {"update", "except"}
                    /\ pc'[e] = "done"
                    /\ Len(writes'[e]) = Len(writes[e]) + 1 ]_vars

C8_Witness ==
    \E e \in Events :
        /\ pc[e] = "done"
        /\ payload[e].id = "P2"
        /\ writes[e][1].ok
        /\ policies["P2"].processing_status = "active"
        /\ policies["P1"] = PendingRow

DownloadFailed(e) == exc[e] = StorageDownloadFailed

\* C9: when the download fails no extraction request is issued, the one
\* update attempted is the secondary one, which sets the status to error
\* and leaves every other field of the row as it was, and the handler
\* returns the error outcome.
C9_StorageFailure ==
    /\ [](\A e \in Events :
            DownloadFailed(e) =>
                /\ nreq[e] = 0
                /\ dl_count[e] = 1
                /\ pc[e] \in {"except", "done"}
                /\ pc[e] = "except" => writes[e] = <<>>
                /\ pc[e] = "done" =>
                     /\ Len(writes[e]) = 1
                     /\ writes[e][1].kind = "secondary"
                     /\ writes[e][1].key = payload[e].id
                     /\ DOMAIN writes[e][1].data = {"processing_status"}
                     /\ writes[e][1].data.processing_status = "error"
                     /\ outcome[e] = [status |-> "error",
                                      message |-> StorageDownloadFailed])
    /\ [][ \A e \in Events :
             (DownloadFailed(e) /\ pc[e] = "except" /\ pc'[e] = "done") =>
                 /\ \A f \in Fields \ {"processing_status"} :
                        policies'[payload[e].id][f] = policies[payload[e].id][f]
                 /\ policies'[payload[e].id].processing_status =
                        IF writes'[e][1].ok THEN "error"
                        ELSE policies[payload[e].id].processing_status ]_vars

\* a download failure on a row an earlier event has filled in
C9_Witness ==
    \E e \in Events :
        /\ pc[e] = "done"
        /\ DownloadFailed(e)
        /\ writes[e][1].ok
        /\ RowOf(e).processing_status = "error"
        /\ RowOf(e).carrier_name = Acme
        /\ RowOf(e).expiration_date = Str(FutureText)

IsExhaustion(x) == x.msg = "All models failed. Last API response: "

\* C10 as stated: when every candidate fails the handler returns the error
\* outcome with the exhaustion message and the record's status is error.
C10_ExhaustionMarksError ==
    [][ \A e \in Events :
          (IsExhaustion(exc[e]) /\ pc[e] = "except" /\ pc'[e] = "done") =>
              /\ outcome'[e] = ErrorOutcome(e)
              /\ policies'[payload[e].id].processing_status = "error" ]_vars

\* C10 as amended: when every candidate fails, after one download and one
\* request per candidate (no retry), the handler issues the error-marking
\* update and returns the error outcome with the exhaustion message; the
\* record's status is error once that update succeeds, and the row is
\* left as it was when the update fails.
C10_ExhaustionHandled ==
    /\ [](\A e \in Events :
            IsExhaustion(exc[e]) =>
                /\ nreq[e] = NumModels
                /\ dl_count[e] = 1
                /\ pc[e] \in {"except", "done"}
                /\ pc[e] = "done" =>
                     /\ outcome[e] = ErrorOutcome(e)
                     /\ writes[e] \in
                          { << [kind |-> "secondary", key |-> payload[e].id,
                                data |-> [processing_status |-> "error"],
                                ok |-> b] >> : b \in BOOLEAN })
    /\ [][ \A e \in Events :
             (IsExhaustion(exc[e]) /\ pc[e] = "except" /\ pc'[e] = "done") =>
                 IF writes'[e][1].ok
                 THEN policies'[payload[e].id].processing_status = "error"
                 ELSE policies' = policies ]_vars

C10_Witness ==
    \E e \in Events :
        /\ pc[e] = "done"
        /\ exc[e] = AllModelsFailed(None)
        /\ nreq[e] = NumModels
        /\ writes[e][1].ok
        /\ RowOf(e).processing_status = "error"
        /\ outcome[e].status = "error"

\* C11: when the primary update fails, exactly one secondary update that
\* sets only the status, to error, is attempted, and the handler returns
\* the error outcome with the message of the primary failure whether the
\* secondary update succeeds or fails; its failure is neither raised nor
\* put in the place of the original message.
C11_PersistenceFailure ==
    \A e \in Events :
        PrimaryFailed(e) =>
            /\ pc[e] \in {"except", "done"}
            /\ exc[e] = UpdateFailed
            /\ pc[e] = "except" => Len(writes[e]) = 1
            /\ pc[e] = "done" =>
                 /\ Len(writes[e]) = 2
                 /\ writes[e][2].kind = "secondary"
                 /\ writes[e][2].key = payload[e].id
                 /\ DOMAIN writes[e][2].data = {"processing_status"}
                 /\ writes[e][2].data.processing_status = "error"
                 /\ outcome[e] = [status |-> "error", message |-> UpdateFailed]

C11_Witness ==
    \E e \in Events :
        /\ pc[e] = "done"
        /\ PrimaryFailed(e)
        /\ ~writes[e][2].ok
        /\ outcome[e].message = UpdateFailed
        /\ RowOf(e) = PendingRow

AttemptFailed(resp) ==
    \/ resp.kind = "raise"
    \/ resp.code # 200
    \/ ~resp.body.shape
    \/ ~JsonLoads(Strip(DropFences(resp.body.text))).ok
    \/ JsonLoads(Strip(DropFences(resp.body.text))).value.t # "obj"

\* C12: a reply whose cleaned text does not parse as a structured object,
\* or whose envelope lacks the candidates/text shape, is a failure of that
\* candidate and the gateway goes on to the next one; what the gateway
\* returns is always a structured object.
C12_OnlyObjectsReturned ==
    /\ gw_pc = "returned" => gw_ret.t = "obj"
    /\ \A j \in 1..Len(gw_log) :
         AttemptFailed(gw_log[j].resp) =>
             \/ j < Len(gw_log)
             \/ gw_pc \in {"loop", "await", "raised"}

(***************************************************************************)
(* Claims about the nag engine (SpecScanner, SpecNag).                    *)
(***************************************************************************)
\* the row is active and expires in the closed interval [today, today + h]
InWindow(row, today, h) ==
    /\ row.processing_status = "active"
    /\ row.expiration_date # NULL
    /\ ~DateLT(IsoDate(row.expiration_date.s), today)
    /\ ~DateLT(AddDays(today, h), IsoDate(row.expiration_date.s))

WithContact(row) ==
    [ id |-> row.id, processing_status |-> row.processing_status,
      expiration_date |-> row.expiration_date,
      carrier_name |-> row.carrier_name,
      vendors |-> IF row.vendor_id \in DOMAIN vendors
                  THEN Obj(vendors[row.vendor_id]) ELSE NULL ]

RECURSIVE Expiring(_, _, _)
Expiring(rows, today, h) ==
    IF rows = <<>> THEN <<>>
    ELSE (IF InWindow(Head(rows), today, h)
          THEN <<WithContact(Head(rows))>> ELSE <<>>)
           \o Expiring(Tail(rows), today, h)

\* C13: a scan whose query succeeds returns exactly the records that are
\* active and expire in [today, today + h], both ends included, each with
\* its vendor contact when it has one; every other record is left out.
C13_ExactWindow ==
    (ng_pc = "returned" /\ ~ng_failed) =>
        ng_scan = Expiring(ng_table, ng_today, ng_days_out)
\* C14: when the scan query fails, get_expiring_policies returns an empty
\* result without raising and run_nag_cycle ends with no send attempt.
C14_QueryFailureIsEmptyScan ==
    ng_failed =>
        /\ ng_pc \in {"returned", "done"}
        /\ ng_scan = <<>>
        /\ ng_sends = <<>>

C14_Witness ==
    /\ ng_failed
    /\ ng_pc = "done"
    /\ Query(ng_table, ng_target, ng_today) # <<>>
    /\ ng_sends = <<>>

RowById(id) == ng_table[CHOOSE k \in 1..Len(ng_table) : ng_table[k].id = id]

HasContactEmail(row) ==
    /\ row.vendor_id \in DOMAIN vendors
    /\ vendors[row.vendor_id].contact_email # NULL
    /\ vendors[row.vendor_id].contact_email # Str(<<>>)

\* C15: every mail goes to one recipient: the contact email of the policy's
\* vendor, greeted by company name, when the policy has a vendor with a
\* non-empty contact email, and the fixed fallback address, greeted as
\* Valued Vendor, when it has no vendor or the email is absent or empty.
C15_RecipientResolution ==
    \A j \in 1..Len(ng_sends) :
        LET row == RowById(ng_sends[j].doc_id)
        IN  IF HasContactEmail(row)
            THEN /\ ng_sends[j].target_email = vendors[row.vendor_id].contact_email
                 /\ ng_sends[j].vendor_name = vendors[row.vendor_id].company_name
            ELSE /\ ng_sends[j].target_email = FallbackEmail
                 /\ ng_sends[j].vendor_name = ValuedVendor

C15_Witness ==
    \E j, k \in 1..Len(ng_sends) :
        /\ HasContactEmail(RowById(ng_sends[j].doc_id))
        /\ ng_sends[j].target_email = vendors.V1.contact_email
        /\ RowById(ng_sends[k].doc_id).vendor_id \in {"V2", "V3"}
        /\ ng_sends[k].target_email = FallbackEmail

\* one mail per scanned record so far, in the order of the scan
SendsFollowScan ==
    /\ Len(ng_sends) <= Len(ng_scan)
    /\ \A j \in 1..Len(ng_sends) : ng_sends[j].doc_id = ng_scan[j].id
    /\ ng_pc = "loop" => ng_i = Len(ng_sends) + 1
    /\ ng_pc = "done" => Len(ng_sends) = Len(ng_scan)

\* the scan result is set by the query alone, once in a cycle
ScanOnce ==
    ng_scan' # ng_scan => (ng_pc = "query" \/ ng_pc' = "target")

\* C16: in a cycle the scan runs once, then one send attempt is made for
\* each scanned record in the order of the scan; a failed delivery is not
\* raised and the later records are still sent to; a cycle that was started
\* reaches its end.
C16_OneSendPerRecord ==
    /\ []SendsFollowScan
    /\ [][ScanOnce]_vars
    /\ (ng_pc = "target") ~> (ng_pc = "done")

C16_Witness ==
    /\ ng_pc = "done"
    /\ Len(ng_scan) = 2
    /\ Len(ng_sends) = 2
    /\ ~ng_sends[1].ok
    /\ ng_sends[2].doc_id = ng_scan[2].id

\* C17: at the end of a cycle whose scan succeeded, every policy that is
\* active and expires in [today, today + 30] was sent a reminder in that
\* cycle, whatever the number of reminders sent for it before.
C17_NotifiedEveryRun ==
    (ng_pc = "done" /\ ng_run >= 1 /\ ~ng_failed) =>
        \A k \in 1..Len(ng_table) :
            InWindow(ng_table[k], ng_today, 30) =>
                \E j \in 1..Len(ng_sends) : ng_sends[j].doc_id = ng_table[k].id

(***************************************************************************)
(* Claims about events on the same record (Spec).                         *)
(***************************************************************************)
Extracted == Fields \ {"processing_status"}

\* the successful writes of kind on the row k, as <<event, position>>
WritesOn(k, kind) ==
    { w \in Events \X {1, 2} :
        /\ w[2] <= Len(writes[w[1]])
        /\ writes[w[1]][w[2]].ok
        /\ writes[w[1]][w[2]].kind = kind
        /\ writes[w[1]][w[2]].key = k }

DataOf(w) == writes[w[1]][w[2]].data

SameExtracted(row, data) == \A f \in Extracted : row[f] = data[f]

\* C18: whatever the interleaving of the events on a record and of their
\* failures, the record's status and its extracted fields come from one
\* and the same event.
C18_WholeRecordFromOneEvent ==
    \A k \in PolicyIds :
        policies[k] # PendingRow =>
            \/ \E w \in WritesOn(k, "primary") :
                 /\ SameExtracted(policies[k], DataOf(w))
                 /\ policies[k].processing_status = DataOf(w).processing_status
            \/ /\ WritesOn(k, "secondary") # {}
               /\ WritesOn(k, "primary") = {}
               /\ SameExtracted(policies[k], PendingRow)
               /\ policies[k].processing_status = "error"

\* C18 as amended: the extracted fields of a record come whole from one
\* successful primary update (or were never written), and the status comes
\* from that same update unless an error mark of an event was written over
\* it, in which case the status is error beside the fields of another event
\* (or no fields at all).
C18_LastWriteWinsPerUpdate ==
    \A k \in PolicyIds :
        policies[k] # PendingRow =>
            \/ \E w \in WritesOn(k, "primary") :
                 /\ SameExtracted(policies[k], DataOf(w))
                 /\ \/ policies[k].processing_status = DataOf(w).processing_status
                    \/ /\ policies[k].processing_status = "error"
                       /\ \E v \in WritesOn(k, "secondary") : v[1] # w[1]
            \/ /\ WritesOn(k, "secondary") # {}
               /\ SameExtracted(policies[k], PendingRow)
               /\ policies[k].processing_status = "error"

C18_Witness ==
    \E k \in PolicyIds :
        \E w \in WritesOn(k, "primary"), v \in WritesOn(k, "secondary") :
            /\ v[1] # w[1]
            /\ DataOf(w).processing_status = "active"
            /\ SameExtracted(policies[k], DataOf(w))
            /\ policies[k].processing_status = "error"
            /\ \A e \in Events : pc[e] = "done"

(***************************************************************************)
(* Claims about what the primary update persists (Spec).                  *)
(***************************************************************************)
\* the primary updates that were persisted, by event
Persisted == { e \in Events : writes[e] # <<>> /\ writes[e][1].kind = "primary"
                              /\ writes[e][1].ok }

\* x is a text that reads as a date
ReadsAsDate(x) == x.t = "str" /\ Strptime(x.s).ok

\* C19: a persisted status active comes with an expiration date that is a
\* date not earlier than the processing date, a persisted status rejected
\* with one that is a date strictly earlier than it, and a persisted status
\* error with an expiration date that is absent or not a valid YYYY-MM-DD
\* date.
C19_StatusMatchesDate ==
    \A e \in Persisted :
        LET st == writes[e][1].data.processing_status
            x == writes[e][1].data.expiration_date
        IN  /\ st = "active" =>
                 ReadsAsDate(x) /\ ~DateLT(Strptime(x.s).date, now[e])
            /\ st = "rejected" =>
                 ReadsAsDate(x) /\ DateLT(Strptime(x.s).date, now[e])
            /\ st = "error" =>
                 x = NULL \/ (x.t = "str" /\ ~IsIsoDate(x.s))
            /\ st \in Terminal

C19_Witness ==
    \E e, f \in Persisted :
        /\ writes[e][1].data.processing_status = "active"
        /\ writes[e][1].data.expiration_date = Str(EdgeText)
        /\ now[e] = FirstDay
        /\ writes[f][1].data.processing_status = "rejected"
        /\ writes[f][1].data.expiration_date = Str(EdgeText)
        /\ now[f] = NextDay(FirstDay)

(***************************************************************************)
(* Claims about the termination of an event (Spec).                       *)
(***************************************************************************)
Started(e) == pc[e] # "idle"

Completed(e) ==
    /\ pc[e] = "done"
    /\ outcome[e].status \in {"success", "error"}

\* the next step of the event can be taken: its call returns or fails
CanStep(e) ==
    ENABLED (Download(e) \/ Extract(e) \/ Validate(e) \/ PrimaryUpdate(e)
               \/ SecondaryUpdate(e))

\* C20: a started event that has not completed with a success or error
\* outcome always has a next step, and from start to end it makes at most
\* one download, at most as many extraction requests as there are
\* candidates and at most two record updates.
C20_CompletesWithinBudget ==
    \A e \in Events :
        /\ dl_count[e] <= 1
        /\ nreq[e] <= NumModels
        /\ Len(writes[e]) <= 2
        /\ (Started(e) /\ ~Completed(e)) => CanStep(e)

====
